---- MODULE Spec2Model ----
(***************************************************************************)
(* The substream indexer of ecosystem/sf-indexer/aptos-sf-indexer:         *)
(* main() of src/main.rs as a state machine, one action per await point    *)
(* and outcome.  The collaborators main() calls but whose code is not in   *)
(* the source tree (get_start_block, SubstreamsStream,                     *)
(* process_substream_with_status) follow sections 4.2-4.4 and 6 of the     *)
(* design specification.                                                   *)
(***************************************************************************)
EXTENDS Integers, Sequences, FiniteSets, TLC

VARIABLES
    marker,           \* progress table: last committed height of the module, or NoMarker
    records,          \* record table: sequence of rows [height, block]
    module_name,      \* --module-name
    chainLen,         \* number of blocks the provider holds (heights 0..chainLen-1)
    pc,               \* position of main()
    exitCode,         \* exit status of the process, NotExited while it runs
    start_block,      \* main.rs:75
    block_height,     \* main.rs:90
    data,             \* the BlockScopedData of the event being processed
    stream,           \* the SubstreamsStream: state, window, position, refills
    delivered,        \* provider heights of the New events handed to the loop in this run
    passed,           \* heights passed to process_substream_with_status in this run
    errs,             \* Err items the stream yielded in this run
    procFailed,       \* phase in which the processor returned Err in this run
    bootFail,         \* startup stage that failed in this run
    replayed,         \* a record write of this run rewrote rows an earlier run had written
    runs,             \* number of runs started
    justCommitted,    \* the last step of main() completed a commit
    haltAfterCommit,  \* the previous run was halted right after a commit completed
    haltMarker,       \* the marker when the previous run ended
    markerReads,      \* calls of get_start_block in this run
    bootDone,         \* startup stages this run has passed
    okCount,          \* processor calls of this run that returned Ok
    returned,         \* processor calls of this run that have returned
    haltPc            \* where main() was when the process was halted from outside

db    == <<marker, records>>
args  == <<module_name, chainLen>>
run   == <<pc, exitCode, start_block, block_height, data, stream>>
hist  == <<delivered, passed, errs, procFailed, bootFail, replayed>>
ghost == <<runs, justCommitted, haltAfterCommit, haltMarker>>
audit == <<markerReads, bootDone, okCount, returned, haltPc>>
vars  == <<db, args, run, hist, ghost, audit>>

(***************************************************************************)
(* Bounds of the model.                                                    *)
(***************************************************************************)
MaxChain == 3
MaxRuns == 3
MaxStreamErrs == 1
StreamBlocks == 1200

(***************************************************************************)
(* Program constants.                                                      *)
(***************************************************************************)
WINDOW_SIZE == 500
DefaultStart == 0
NotExited == -1
ExitOk == 0
ExitErr == 1
ExitPanic == 101
NoMarker == -1

ModuleNames == {"block_to_block_output", "other_module"}

\* main.rs:83  None: no cursor
NoCursor == <<>>

\* The opaque cursor the provider attaches to its block at height h.
CursorAt(h) == <<h>>

NoData == [height |-> -1, payload |-> -1, cursor |-> NoCursor]
NoStream == [state |-> "NONE", wstart |-> 0, wend |-> 0, pos |-> 0, refills |-> 0,
             cursor |-> NoCursor]

(***************************************************************************)
(* The record table (Block Processor, spec 4.2 and 4.4).                   *)
(***************************************************************************)
\* The payload of the provider's block at height h.
Payload(h) == h

\* decode(payload): the typed rows of one block.
Decode(p) == [block |-> p]

HasRows(t, h) == \E i \in 1..Len(t) : t[i].height = h

RowsOf(t, h) == {t[i].row : i \in {j \in 1..Len(t) : t[j].height = h}}

\* A write that inserts without looking for the rows of an earlier attempt.
WriteInsert(t, h, rows) == Append(t, [height |-> h, row |-> rows])

\* write(records, store): an upsert keyed by the block height.
Write(t, h, rows) ==
    IF HasRows(t, h)
    THEN [i \in 1..Len(t) |-> IF t[i].height = h THEN [height |-> h, row |-> rows] ELSE t[i]]
    ELSE Append(t, [height |-> h, row |-> rows])

\* A commit that moves the marker first and does not take it back.
MarkerMovedBeforeWrite(m, h) == h

\* The progress marker after the record write of height h failed: the commit
\* is one atomic unit, so it is the marker from before the block.
MarkerOnWriteFailure(m, h) == m

\* The progress marker once the commit of height h completes.
MarkerAfterCommit(m, h) == h

(***************************************************************************)
(* Resume Tracker (spec 4.2) and main.rs:75-90.                            *)
(***************************************************************************)
\* get_start_block: Some(marker + 1), None when no marker exists.
get_start_block(m) == IF m = NoMarker THEN NoMarker ELSE m + 1

\* A start that takes the first block to be block 1 when there is no marker.
StartBlockFromOne(m) == IF get_start_block(m) = NoMarker THEN 1 ELSE get_start_block(m)

\* main.rs:75-78  unwrap_or_else(|| 0)
StartBlock(m) == IF get_start_block(m) = NoMarker THEN DefaultStart ELSE get_start_block(m)

StreamStartOffByOne(s) == s + 1

\* main.rs:86  the start of the requested range
StreamStart(s) == s

\* An end that takes the range to be inclusive.
StreamEndInclusive(s) == s + WINDOW_SIZE - 1

\* main.rs:87  the end of the requested range
StreamEnd(s) == s + WINDOW_SIZE

BlockHeightAfterStart(s) == s + 1

\* main.rs:90  let mut block_height = start_block as u64
InitialBlockHeight(s) == s

BlockHeightUnchanged(h) == h

\* An increment that skips a height.
BlockHeightSkips(h) == h + 2

\* main.rs:116  block_height += 1
NextBlockHeight(h) == h + 1

\* A loop that hands the cursor of the event back to the stream.
CursorFedBack(seed, c) == c

\* main.rs:99-102  data.cursor is logged and nothing else: the stream keeps
\* the resume hint it was created with
CursorAfterEvent(seed, c) == seed

\* A call that passes the height the provider reported for the event.
ProviderHeight(local, reported) == reported

\* main.rs:107-111  the height argument of process_substream_with_status is
\* main's own block_height
HeightArg(local, reported) == local

\* main.rs:104  the only module a processor exists for
Dispatch(name) == name = "block_to_block_output"

(***************************************************************************)
(* Windowed Stream Reader (spec 4.3) over the streaming protocol (spec 6). *)
(***************************************************************************)
\* The provider's response to the request (pos, wend): the next event.
ProviderSignal(r) ==
    IF r.pos >= r.wend THEN "EndOfWindow"
    ELSE IF r.pos >= chainLen THEN "EndOfStream"
    ELSE "NewBlock"

ClosesOnAnyEnd(sig) == sig \in {"EndOfStream", "EndOfWindow"}

\* Only the provider's end-of-stream closes the reader.
ClosesStream(sig) == sig = "EndOfStream"

\* REFILL: on window exhaustion open (prevEnd, prevEnd + WINDOW_SIZE).
Refilled(r) ==
    IF ProviderSignal(r) = "EndOfWindow"
    THEN [r EXCEPT !.wstart = r.wend, !.wend = r.wend + WINDOW_SIZE, !.refills = @ + 1]
    ELSE r

\* What stream.next() resolves to: "New", or "None" once the reader is CLOSED.
NextItem(r) ==
    IF r.state = "CLOSED" \/ ClosesStream(ProviderSignal(r)) THEN "None"
    ELSE IF ClosesStream(ProviderSignal(Refilled(r))) THEN "None"
    ELSE "New"

(***************************************************************************)
(* Where main() goes on each outcome.                                      *)
(***************************************************************************)
ContinueLoop == "loop"

\* A loop that starts the processing and asks for the next event without
\* waiting for it.
SpawnAndContinue == "loop"

\* main.rs:106-113  main awaits process_substream_with_status
PcAfterDispatch == "process"

\* An Err branch that logs the error and goes on with the next event.
LogAndContinue == "loop"

\* main.rs:118-124  Err(error) => { error!(..); panic!() }
PcAfterProcessErr == "exited"

IgnoreStartupErr == "connect"

\* main.rs:71  the ? operator returns the error from main
PcAfterStartupErr == "exited"

\* A None branch that goes on with the loop.
KeepPolling == "loop"

\* main.rs:93-96  None => break
PcAfterStreamEnd == "exited"

\* A startup that goes on to read the marker without a connected endpoint.
ProceedUnconnected == "start"

\* main.rs:72  SubstreamsEndpoint::new(..).await? returns the error from main
PcAfterConnectErr == "exited"

\* main.rs:97-98  an event that is not Ok(BlockResponse::New(_)) falls through
PcAfterStreamErr == "loop"

(***************************************************************************)
(* Initial state: a fresh store, before the first run.                     *)
(***************************************************************************)
RunInit ==
    /\ pc = "env"
    /\ exitCode = NotExited
    /\ start_block = 0
    /\ block_height = 0
    /\ data = NoData
    /\ stream = NoStream
    /\ delivered = <<>>
    /\ passed = <<>>
    /\ errs = 0
    /\ procFailed = "none"
    /\ bootFail = "none"
    /\ replayed = FALSE
    /\ markerReads = 0
    /\ bootDone = {}
    /\ okCount = 0
    /\ returned = 0
    /\ haltPc = "none"

StoreInit ==
    /\ marker = NoMarker
    /\ records = <<>>
    /\ runs = 1
    /\ justCommitted = FALSE
    /\ haltAfterCommit = FALSE
    /\ haltMarker = NoMarker

Init ==
    /\ StoreInit
    /\ RunInit
    /\ module_name \in ModuleNames
    /\ chainLen \in 0..MaxChain

(***************************************************************************)
(* Startup, main.rs:58-88.                                                 *)
(***************************************************************************)
\* main.rs:58-59  DATABASE_URL is set and the pool is created
EnvOk ==
    /\ pc = "env"
    /\ pc' = "package"
    /\ UNCHANGED <<exitCode, start_block, block_height, data, stream>>
    /\ UNCHANGED <<db, args, hist, ghost>>
    /\ bootDone' = bootDone \cup {"env"}
    /\ UNCHANGED <<markerReads, okCount, returned, haltPc>>

\* main.rs:58-59  expect("DATABASE_URL must be set") / unwrap() panics
EnvMissing ==
    /\ pc = "env"
    /\ pc' = "exited"
    /\ exitCode' = ExitPanic
    /\ bootFail' = "env"
    /\ UNCHANGED <<start_block, block_height, data, stream>>
    /\ UNCHANGED <<delivered, passed, errs, procFailed, replayed>>
    /\ UNCHANGED <<db, args, ghost>>
    /\ UNCHANGED audit

\* main.rs:71  read_package(package_file)? succeeded
ReadPackageOk ==
    /\ pc = "package"
    /\ pc' = "connect"
    /\ UNCHANGED <<exitCode, start_block, block_height, data, stream>>
    /\ UNCHANGED <<db, args, hist, ghost>>
    /\ bootDone' = bootDone \cup {"package"}
    /\ UNCHANGED <<markerReads, okCount, returned, haltPc>>

\* main.rs:71, 135-138  the file cannot be read or decoded: main returns Err
ReadPackageErr ==
    /\ pc = "package"
    /\ pc' = PcAfterStartupErr
    /\ exitCode' = IF PcAfterStartupErr = "exited" THEN ExitErr ELSE exitCode
    /\ bootFail' = "package"
    /\ UNCHANGED <<start_block, block_height, data, stream>>
    /\ UNCHANGED <<delivered, passed, errs, procFailed, replayed>>
    /\ UNCHANGED <<db, args, ghost>>
    /\ UNCHANGED audit

\* main.rs:72  SubstreamsEndpoint::new(..).await? succeeded
ConnectOk ==
    /\ pc = "connect"
    /\ pc' = "start"
    /\ UNCHANGED <<exitCode, start_block, block_height, data, stream>>
    /\ UNCHANGED <<db, args, hist, ghost>>
    /\ bootDone' = bootDone \cup {"endpoint"}
    /\ UNCHANGED <<markerReads, okCount, returned, haltPc>>

\* main.rs:72  the endpoint connection failed: main returns Err
ConnectErr ==
    /\ pc = "connect"
    /\ pc' = PcAfterConnectErr
    /\ exitCode' = IF PcAfterConnectErr = "exited" THEN ExitErr ELSE exitCode
    /\ bootFail' = "endpoint"
    /\ UNCHANGED <<start_block, block_height, data, stream>>
    /\ UNCHANGED <<delivered, passed, errs, procFailed, replayed>>
    /\ UNCHANGED <<db, args, ghost>>
    /\ UNCHANGED audit

\* main.rs:75-90  read the marker, create the stream, set block_height
GetStartBlock ==
    /\ pc = "start"
    /\ start_block' = StartBlock(marker)
    /\ stream' = [state |-> "INIT",
                  wstart |-> StreamStart(start_block'),
                  wend |-> StreamEnd(start_block'),
                  pos |-> StreamStart(start_block'),
                  refills |-> 0,
                  cursor |-> NoCursor]
    /\ block_height' = InitialBlockHeight(start_block')
    /\ pc' = "loop"
    /\ UNCHANGED <<exitCode, data>>
    /\ UNCHANGED <<db, args, hist, ghost>>
    /\ markerReads' = markerReads + 1
    /\ UNCHANGED <<bootDone, okCount, returned, haltPc>>

(***************************************************************************)
(* The loop, main.rs:91-130.                                               *)
(***************************************************************************)
\* main.rs:92-112  stream.next() yields Ok(New(data)); the processor is called
\* when the module has one
LoopNew ==
    /\ pc = "loop"
    /\ NextItem(stream) = "New"
    /\ LET r == Refilled(stream) IN
        /\ stream' = [r EXCEPT !.state = "STREAMING", !.pos = @ + 1,
                               !.cursor = CursorAfterEvent(@, CursorAt(r.pos))]
        /\ delivered' = Append(delivered, r.pos)
        /\ IF Dispatch(module_name)
           THEN /\ pc' = PcAfterDispatch
                /\ data' = [height |-> r.pos, payload |-> Payload(r.pos),
                            cursor |-> CursorAt(r.pos)]
                /\ passed' = Append(passed, HeightArg(block_height, r.pos))
           ELSE /\ pc' = ContinueLoop
                /\ UNCHANGED <<data, passed>>
    /\ justCommitted' = FALSE
    /\ UNCHANGED <<exitCode, start_block, block_height>>
    /\ UNCHANGED <<errs, procFailed, bootFail, replayed>>
    /\ UNCHANGED <<runs, haltAfterCommit, haltMarker>>
    /\ UNCHANGED <<db, args>>
    /\ UNCHANGED audit

\* main.rs:97-98  stream.next() yields Err for a failed connection: no block
\* is consumed, and main falls through to the next iteration
LoopErrConnection ==
    /\ pc = "loop"
    /\ stream.state # "CLOSED"
    /\ errs < MaxStreamErrs
    /\ errs' = errs + 1
    /\ pc' = PcAfterStreamErr
    /\ exitCode' = IF PcAfterStreamErr = "exited" THEN ExitErr ELSE exitCode
    /\ justCommitted' = FALSE
    /\ UNCHANGED <<start_block, block_height, data, stream>>
    /\ UNCHANGED <<delivered, passed, procFailed, bootFail, replayed>>
    /\ UNCHANGED <<runs, haltAfterCommit, haltMarker>>
    /\ UNCHANGED <<db, args>>
    /\ UNCHANGED audit

\* main.rs:97-98  stream.next() yields Err for a response that does not
\* decode: the provider's block is consumed, and main falls through
LoopErrDecode ==
    /\ pc = "loop"
    /\ NextItem(stream) = "New"
    /\ errs < MaxStreamErrs
    /\ errs' = errs + 1
    /\ stream' = [Refilled(stream) EXCEPT !.state = "STREAMING", !.pos = @ + 1]
    /\ pc' = PcAfterStreamErr
    /\ exitCode' = IF PcAfterStreamErr = "exited" THEN ExitErr ELSE exitCode
    /\ justCommitted' = FALSE
    /\ UNCHANGED <<start_block, block_height, data>>
    /\ UNCHANGED <<delivered, passed, procFailed, bootFail, replayed>>
    /\ UNCHANGED <<runs, haltAfterCommit, haltMarker>>
    /\ UNCHANGED <<db, args>>
    /\ UNCHANGED audit

\* main.rs:93-96, 132  stream.next() yields None: break, Ok(())
LoopEnd ==
    /\ pc = "loop"
    /\ NextItem(stream) = "None"
    /\ stream' = [stream EXCEPT !.state = "CLOSED"]
    /\ pc' = PcAfterStreamEnd
    /\ exitCode' = IF PcAfterStreamEnd = "exited" THEN ExitOk ELSE exitCode
    /\ justCommitted' = FALSE
    /\ UNCHANGED <<start_block, block_height, data>>
    /\ UNCHANGED <<runs, haltAfterCommit, haltMarker>>
    /\ UNCHANGED <<db, args, hist>>
    /\ UNCHANGED audit

(***************************************************************************)
(* process_substream_with_status, main.rs:105-125 and spec 4.2.            *)
(***************************************************************************)
\* The record-write phase of the commit of the height main passed
ProcessWrite ==
    /\ pc = "process"
    /\ LET h == passed[Len(passed)] IN
        /\ records' = Write(records, h, Decode(data.payload))
        /\ replayed' = (replayed \/ RowsOf(records, h) = {Decode(data.payload)})
    /\ pc' = "commit"
    /\ UNCHANGED <<exitCode, start_block, block_height, data, stream>>
    /\ UNCHANGED <<delivered, passed, errs, procFailed, bootFail>>
    /\ UNCHANGED <<marker, args, ghost>>
    /\ UNCHANGED audit

\* The marker update completes the commit; main.rs:114-117 Ok(_) => block_height += 1
ProcessCommit ==
    /\ pc = "commit"
    /\ marker' = MarkerAfterCommit(marker, passed[Len(passed)])
    /\ block_height' = NextBlockHeight(block_height)
    /\ pc' = ContinueLoop
    /\ data' = NoData
    /\ justCommitted' = TRUE
    /\ UNCHANGED <<records, exitCode, start_block, stream>>
    /\ UNCHANGED <<runs, haltAfterCommit, haltMarker>>
    /\ UNCHANGED <<args, hist>>
    /\ okCount' = okCount + 1
    /\ returned' = returned + 1
    /\ UNCHANGED <<markerReads, bootDone, haltPc>>

\* main.rs:118-124  the processor returns Err (decode or store failure in the
\* record write, or store failure in the marker update): panic
ProcessErr ==
    /\ pc \in {"process", "commit"}
    /\ procFailed' = IF pc = "process" THEN "write" ELSE "marker"
    /\ pc' = PcAfterProcessErr
    /\ exitCode' = IF PcAfterProcessErr = "exited" THEN ExitPanic ELSE exitCode
    /\ UNCHANGED <<start_block, block_height, data, stream>>
    /\ marker' = IF pc = "process"
                  THEN MarkerOnWriteFailure(marker, passed[Len(passed)])
                  ELSE marker
    /\ UNCHANGED <<delivered, passed, errs, bootFail, replayed>>
    /\ UNCHANGED <<records, args, ghost>>
    /\ returned' = returned + 1
    /\ UNCHANGED <<markerReads, bootDone, okCount, haltPc>>

(***************************************************************************)
(* The environment: the process is halted, the supervisor starts it again. *)
(***************************************************************************)
Crash ==
    /\ pc \notin {"exited", "crashed", "signalled"}
    /\ pc' = "crashed"
    /\ UNCHANGED <<exitCode, start_block, block_height, data, stream>>
    /\ UNCHANGED <<db, args, hist, ghost>>
    /\ haltPc' = pc
    /\ UNCHANGED <<markerReads, bootDone, okCount, returned>>

\* main.rs:48-133  a shutdown signal: main installs no handler and never polls
\* for one, so the signal ends the process wherever main() is
Shutdown ==
    /\ pc \notin {"exited", "crashed", "signalled"}
    /\ pc' = "signalled"
    /\ haltPc' = pc
    /\ UNCHANGED <<markerReads, bootDone, okCount, returned>>
    /\ UNCHANGED <<exitCode, start_block, block_height, data, stream>>
    /\ UNCHANGED <<db, args, hist, ghost>>

Restart ==
    /\ pc \in {"exited", "crashed", "signalled"}
    /\ runs < MaxRuns
    /\ runs' = runs + 1
    /\ haltAfterCommit' = (pc = "crashed" /\ justCommitted)
    /\ haltMarker' = marker
    /\ justCommitted' = FALSE
    /\ pc' = "env"
    /\ exitCode' = NotExited
    /\ start_block' = 0
    /\ block_height' = 0
    /\ data' = NoData
    /\ stream' = NoStream
    /\ delivered' = <<>>
    /\ passed' = <<>>
    /\ errs' = 0
    /\ procFailed' = "none"
    /\ bootFail' = "none"
    /\ replayed' = FALSE
    /\ UNCHANGED <<db, args>>
    /\ markerReads' = 0
    /\ bootDone' = {}
    /\ okCount' = 0
    /\ returned' = 0
    /\ haltPc' = "none"

Next ==
    \/ EnvOk
    \/ EnvMissing
    \/ ReadPackageOk
    \/ ReadPackageErr
    \/ ConnectOk
    \/ ConnectErr
    \/ GetStartBlock
    \/ LoopNew
    \/ LoopErrConnection
    \/ LoopErrDecode
    \/ LoopEnd
    \/ ProcessWrite
    \/ ProcessCommit
    \/ ProcessErr
    \/ Crash
    \/ Shutdown
    \/ Restart

Spec == Init /\ [][Next]_vars

(***************************************************************************)
(* A run against a provider that holds more blocks than one window and     *)
(* yields no error item; the process is not halted.  The store is fresh or *)
(* holds what earlier runs committed for the heights 0 and 1.              *)
(***************************************************************************)
InitWindow ==
    /\ marker \in {NoMarker, 1}
    /\ records = [i \in 1..(marker + 1) |->
                    [height |-> i - 1, row |-> Decode(Payload(i - 1))]]
    /\ runs = 1
    /\ justCommitted = FALSE
    /\ haltAfterCommit = FALSE
    /\ haltMarker = marker
    /\ RunInit
    /\ module_name \in ModuleNames
    /\ chainLen \in {WINDOW_SIZE, WINDOW_SIZE + 1, StreamBlocks}

NextWindow ==
    \/ EnvOk
    \/ EnvMissing
    \/ ReadPackageOk
    \/ ReadPackageErr
    \/ ConnectOk
    \/ ConnectErr
    \/ GetStartBlock
    \/ LoopNew
    \/ LoopEnd
    \/ ProcessWrite
    \/ ProcessCommit
    \/ ProcessErr

SpecWindow == InitWindow /\ [][NextWindow]_vars

(***************************************************************************)
(* A run in which startup and every processor call succeed and nothing     *)
(* halts the process.  main() is the only task: it takes its next step     *)
(* whenever the await it is suspended on resolves.                         *)
(***************************************************************************)
NextLive ==
    \/ EnvOk
    \/ ReadPackageOk
    \/ ConnectOk
    \/ GetStartBlock
    \/ LoopNew
    \/ LoopErrConnection
    \/ LoopErrDecode
    \/ LoopEnd
    \/ ProcessWrite
    \/ ProcessCommit

SpecLive == Init /\ [][NextLive]_vars /\ WF_vars(NextLive)

TypeOK ==
    /\ marker \in {NoMarker} \cup Nat
    /\ pc \in {"env", "package", "connect", "start", "loop", "process", "commit",
               "exited", "crashed", "signalled"}
    /\ exitCode \in {NotExited, ExitOk, ExitErr, ExitPanic}
    /\ stream.state \in {"NONE", "INIT", "STREAMING", "CLOSED"}
    /\ procFailed \in {"none", "write", "marker"}
    /\ bootFail \in {"none", "env", "package", "endpoint"}
    /\ runs \in 1..MaxRuns

(***************************************************************************)
(* Properties.                                                             *)
(***************************************************************************)

\* C1: the heights passed to process_substream_with_status in a run that
\* starts at start_block are start_block, start_block + 1, ... in that order:
\* each is the previous plus 1, with no duplicate, no gap and no reordering.
C1_ContiguousHeights ==
    \A i \in 1..Len(passed) : passed[i] = start_block + (i - 1)

C1_Witness ==
    /\ Len(passed) >= 2
    /\ start_block > 0
    /\ procFailed = "none"

\* C2: when the previous run was halted right after the commit of height h
\* completed, the new run computes its start as h + 1 and the first height it
\* hands to the processor is h + 1.
C2_ResumeAfterCommit ==
    (haltAfterCommit /\ stream.state # "NONE") =>
        /\ start_block = haltMarker + 1
        /\ passed # <<>> => passed[1] = haltMarker + 1

C2_Witness ==
    /\ haltAfterCommit
    /\ haltMarker >= 0
    /\ passed # <<>>

\* C3: in every state, also after a halt, the marker is at H only if the
\* records of H are written; and after the record write of block_height
\* failed, the marker holds the value from before that block.
C3_CommitAtomicity ==
    /\ marker # NoMarker => HasRows(records, marker)
    /\ procFailed = "write" =>
         marker = (IF block_height = 0 THEN NoMarker ELSE block_height - 1)

C3_Witness ==
    /\ procFailed = "write"
    /\ block_height > 0
    /\ pc = "exited"

\* C4: a record write that replays the payload an earlier run wrote for the
\* same height (the earlier run was halted before the marker update) leaves
\* the store as the first write left it.
C4_IdempotentReplay ==
    [][(/\ pc = "process"
        /\ pc' = "commit"
        /\ RowsOf(records, block_height) = {Decode(data.payload)})
       => (records' = records /\ marker' = marker)]_vars

C4_Witness ==
    /\ replayed
    /\ pc = "commit"
    /\ runs > 1

\* C5: with more blocks than one window, every exhausted window is followed
\* by the window (prevEnd, prevEnd + WINDOW_SIZE), the loop receives the
\* provider's blocks in order, all of them by the time the stream ends, and
\* StreamBlocks blocks take exactly 2 refills.
C5_WindowTransparency ==
    /\ \A i \in 1..Len(delivered) : delivered[i] = start_block + (i - 1)
    /\ stream.state # "NONE" =>
         /\ stream.wstart = start_block + stream.refills * WINDOW_SIZE
         /\ stream.wend = stream.wstart + WINDOW_SIZE
    /\ exitCode = ExitOk =>
         /\ Len(delivered) = chainLen - start_block
         /\ chainLen = StreamBlocks => stream.refills = 2

C5_Witness ==
    /\ exitCode = ExitOk
    /\ chainLen = StreamBlocks
    /\ stream.refills = 2
    /\ Len(delivered) = StreamBlocks

\* C6: the loop ends normally only when the provider has no later block: the
\* end of a window never makes it exit.
C6_OnlyEndOfStreamTerminates ==
    exitCode = ExitOk => (stream.state = "CLOSED" /\ stream.pos >= chainLen)

C6_Witness ==
    /\ stream.refills >= 1
    /\ pc = "process"
    /\ stream.pos < chainLen

\* C7: an event whose provider-reported height differs from block_height is
\* never passed to the processor.
C7_OrderingChecked ==
    pc \in {"process", "commit"} => data.height = block_height

\* C8: after the processor returned an error for height H the process has
\* terminated with a non-zero code, H was passed to the processor once, the
\* failed event is the last one read, and block_height is still H.
C8_FailFastOnProcessingError ==
    procFailed # "none" =>
        /\ pc = "exited"
        /\ exitCode = ExitPanic
        /\ passed # <<>>
        /\ block_height = passed[Len(passed)]
        /\ \A i \in 1..(Len(passed) - 1) : passed[i] # block_height
        /\ data.height = stream.pos - 1

C8_Witness ==
    /\ procFailed = "write"
    /\ stream.pos < chainLen

\* C9: once the stream has yielded an error item the process has terminated
\* with a non-zero code.
C9_FailFastOnStreamError ==
    errs > 0 => (pc \in {"exited", "crashed", "signalled"} /\ exitCode # ExitOk)

\* C10: the process exits with code 0 when the stream ended and neither a
\* startup stage nor the processor failed, and with a non-zero code when the
\* package read, the endpoint connection, or the processing failed.
C10_ExitStatus ==
    pc = "exited" =>
        /\ exitCode # NotExited
        /\ exitCode = ExitOk <=> (bootFail = "none" /\ procFailed = "none")
        /\ exitCode = ExitOk => stream.state = "CLOSED"

C10_Witness ==
    /\ pc = "exited"
    /\ exitCode = ExitOk
    /\ passed # <<>>

\* C11: a module name without a processor is rejected at startup: no block
\* event is consumed under such a name.
C11_UnknownModuleRejected ==
    ~Dispatch(module_name) => delivered = <<>>

\* C12: a run that finds no progress marker starts at 0 and hands the heights
\* 0, 1, 2 to the processor; and right after the processing of height H
\* succeeded the marker equals H, so it is 2 after the third block.
C12_FreshStartScenario ==
    /\ (haltMarker = NoMarker /\ stream.state # "NONE") =>
         /\ start_block = 0
         /\ \A i \in 1..Len(passed) : passed[i] = i - 1
    /\ justCommitted =>
         /\ passed # <<>>
         /\ marker = passed[Len(passed)]
         /\ (haltMarker = NoMarker /\ Len(passed) = 3) => marker = 2

C12_Witness ==
    /\ haltMarker = NoMarker
    /\ passed = <<0, 1, 2>>
    /\ justCommitted
    /\ marker = 2

\* C13: every stream of a run is opened with the height computed from the
\* progress marker and with no cursor, and the cursor of an event is never
\* handed back to the stream: the seed is the height alone.
C13_HeightSeedOnly ==
    stream.state # "NONE" =>
        /\ stream.cursor = NoCursor
        /\ start_block = StartBlock(haltMarker)
        /\ stream.wstart = start_block + stream.refills * WINDOW_SIZE

C13_Witness ==
    /\ pc = "process"
    /\ data.cursor # NoCursor
    /\ stream.cursor = NoCursor
    /\ start_block > 0
    /\ Len(delivered) >= 2

\* C14: the marker is read, a stream is opened and a block is processed only
\* after DATABASE_URL was found, the package was read and decoded and the
\* endpoint was connected; a run in which one of the three failed has ended
\* without reading or writing the marker and without opening a stream.
C14_StartupGate ==
    /\ (markerReads > 0 \/ stream.state # "NONE" \/ delivered # <<>> \/ passed # <<>>) =>
         /\ bootDone = {"env", "package", "endpoint"}
         /\ bootFail = "none"
    /\ bootFail # "none" =>
         /\ pc = "exited"
         /\ exitCode \in {ExitErr, ExitPanic}
         /\ markerReads = 0
         /\ marker = haltMarker
         /\ stream.state = "NONE"

C14_Witness ==
    /\ bootFail = "endpoint"
    /\ bootDone = {"env", "package"}
    /\ pc = "exited"
    /\ marker >= 0

\* C15: a shutdown signal never ends the process while a commit is in
\* progress: it takes effect only between two blocks.
C15_ShutdownAtBlockBoundary ==
    pc = "signalled" => haltPc \notin {"process", "commit"}

\* C16: get_start_block is called once per run, at startup before the
\* stream exists, and not again in the loop; within a run the marker changes
\* only when a commit completes with Ok, and then by exactly one block
\* upwards.
C16_MarkerReadOnceWrittenByCommit ==
    [][/\ markerReads' <= 1
       /\ stream'.state # "NONE" => markerReads' = 1
       /\ (runs' = runs /\ markerReads' # markerReads) =>
            (pc = "start" /\ stream.state = "NONE")
       /\ (runs' = runs /\ marker' # marker) =>
            /\ pc = "commit"
            /\ pc' = "loop"
            /\ okCount' = okCount + 1
            /\ marker' = (IF marker = NoMarker THEN 0 ELSE marker + 1)
       /\ runs' # runs => marker' = marker]_vars

C16_Witness ==
    /\ markerReads = 1
    /\ okCount >= 2
    /\ marker >= 2
    /\ runs > 1

\* C17: at most one processor call is in progress at any time, the next
\* stream event is requested only when none is, and while a call is in
\* progress the last event read is the one being processed.
C17_SequentialProcessing ==
    /\ Len(passed) - returned \in {0, 1}
    /\ pc = "loop" => Len(passed) = returned
    /\ pc \in {"process", "commit"} =>
         /\ Len(passed) = returned + 1
         /\ stream.pos = data.height + 1

C17_Witness ==
    /\ pc = "commit"
    /\ returned >= 1
    /\ stream.pos < chainLen

\* C18: the first window requested is (start_block, start_block +
\* WINDOW_SIZE) with start_block the value obtained from the progress
\* marker, and every window requested has end > start and a span of exactly
\* WINDOW_SIZE.
C18_WindowShape ==
    stream.state # "NONE" =>
        /\ start_block = StartBlock(haltMarker)
        /\ stream.refills = 0 =>
             /\ stream.wstart = start_block
             /\ stream.wend = start_block + WINDOW_SIZE
        /\ stream.wend > stream.wstart
        /\ stream.wend - stream.wstart = WINDOW_SIZE

C18_Witness ==
    /\ stream.refills >= 1
    /\ start_block > 0
    /\ stream.state = "STREAMING"

\* C19: block_height is start_block plus the number of processor calls that
\* returned Ok, it changes only when a call returns Ok and then by 1, and an
\* event is recorded under that local height whatever height and cursor the
\* provider attached to it.
C19_LocalHeightCounter ==
    [][/\ stream'.state # "NONE" => block_height' = start_block' + okCount'
       /\ pc' = "commit" =>
            /\ passed'[Len(passed')] = start_block' + okCount'
            /\ RowsOf(records', start_block' + okCount') = {Decode(data'.payload)}
       /\ (runs' = runs /\ pc # "start" /\ block_height' # block_height) =>
            /\ pc = "commit"
            /\ okCount' = okCount + 1
            /\ block_height' = block_height + 1]_vars

C19_Witness ==
    /\ pc = "commit"
    /\ data.height # block_height
    /\ data.cursor # CursorAt(block_height)
    /\ RowsOf(records, block_height) = {Decode(data.payload)}

\* C20: with a finite stream and every processor call succeeding the run
\* reaches the end of the stream and exits normally; once the stream is
\* CLOSED no further event is read and no further block is processed.
C20_TerminatesAtEndOfStream ==
    /\ <>(pc = "exited" /\ exitCode = ExitOk /\ stream.state = "CLOSED")
    /\ [][stream.state = "CLOSED" =>
            /\ stream' = stream
            /\ delivered' = delivered
            /\ passed' = passed
            /\ records' = records]_vars

C20_Witness ==
    /\ pc = "exited"
    /\ exitCode = ExitOk
    /\ stream.state = "CLOSED"
    /\ okCount >= 2

====
